---- MODULE Spec2Model ----
(***************************************************************************)
(* The ramda-extras playground: an editor pane whose content is, after a   *)
(* 500 ms debounce, transpiled, evaluated and rendered into an output pane *)
(* (src/src/ui/input/input.tsx, src/src/logic/handleCodeChange.tsx,        *)
(* src/src/ui/app/app.tsx, src/src/ui/output/output.tsx,                   *)
(* src/src/logic/logger.ts), the name lists and the prelude that expose    *)
(* the three libraries to the evaluated code, and the share button that    *)
(* copies the page's address with the editor's text in its code parameter  *)
(* (src/unnamed/part_003, src/src/config/editor.ts).                       *)
(*                                                                         *)
(* Text is modelled by TLA+ strings; JavaScript values by tagged records.  *)
(***************************************************************************)
EXTENDS Integers, Sequences, FiniteSets, TLC

(***************************************************************************)
(* Bounds of the model and program constants.                              *)
(***************************************************************************)
\* input.tsx:26  setTimeout(fn, 500)
Delay == 500
\* milliseconds that pass in one Tick
TickMs == 250
\* timers the browser hands out (content-change notifications of one behaviour)
MaxTimers == 3
\* names one library exports at most
MaxExports == 3

(***************************************************************************)
(* JavaScript values.                                                      *)
(***************************************************************************)
Undefined == [t |-> "undefined"]
Null      == [t |-> "null"]
Num(n)    == [t |-> "number", n |-> n]
Str(s)    == [t |-> "string", s |-> s]
Arr(xs)   == [t |-> "array", items |-> xs]
\* a function value, such as a partially applied library function
Fn        == [t |-> "function"]
Sym(d)    == [t |-> "symbol", d |-> d]
\* a plain object {}
Obj       == [t |-> "object"]
\* an array that contains itself
Cyclic    == [t |-> "cyclic"]
\* an Error instance; hasStack = FALSE when e.stack is undefined
Err(m, hasStack, st) ==
  [t |-> "Error", message |-> m, hasStack |-> hasStack, stack |-> st]

\* the TypeError that JSON.stringify raises on a circular structure
CircularError ==
  Err("Converting circular structure to JSON", TRUE,
      "TypeError: Converting circular structure to JSON")
\* the TypeError of calling .replace on undefined
ReplaceOfUndefinedError ==
  Err("Cannot read properties of undefined (reading 'replace')", TRUE,
      "TypeError: Cannot read properties of undefined (reading 'replace')")
\* the TypeError of converting a Symbol to a string in a template literal
SymbolToStringError ==
  Err("Cannot convert a Symbol value to a string", TRUE,
      "TypeError: Cannot convert a Symbol value to a string")

(***************************************************************************)
(* Strings.                                                                *)
(***************************************************************************)
\* String.prototype.indexOf, 1-based, 0 when pat does not occur
IndexOf(s, pat) ==
  LET n == Len(s)
      m == Len(pat)
      hits == {i \in 1..(n - m + 1) : SubSeq(s, i, i + m - 1) = pat}
  IN  IF hits = {} THEN 0 ELSE CHOOSE i \in hits : \A j \in hits : i <= j

\* String.prototype.replace with a string pattern: the first occurrence only
ReplaceFirst(s, pat, rep) ==
  LET i == IndexOf(s, pat)
  IN  IF i = 0 THEN s
      ELSE SubSeq(s, 1, i - 1) \o rep \o SubSeq(s, i + Len(pat), Len(s))

\* Array.prototype.join over strings
RECURSIVE JoinStr(_, _)
JoinStr(xs, sep) ==
  IF xs = <<>> THEN ""
  ELSE IF Len(xs) = 1 THEN xs[1]
  ELSE xs[1] \o sep \o JoinStr(Tail(xs), sep)

\* JSON string escaping of the quote and the backslash
RECURSIVE JsonEscape(_)
JsonEscape(s) ==
  IF s = "" THEN ""
  ELSE LET c == SubSeq(s, 1, 1)
           r == JsonEscape(SubSeq(s, 2, Len(s)))
       IN  IF c = "\"" \/ c = "\\" THEN "\\" \o c \o r ELSE c \o r

Quote(s) == "\"" \o JsonEscape(s) \o "\""

RECURSIVE Spaces(_)
Spaces(n) == IF n = 0 THEN "" ELSE " " \o Spaces(n - 1)

(***************************************************************************)
(* JSON.stringify(value, null, 2) and the string coercions.                *)
(***************************************************************************)
RECURSIVE HasCycle(_)
HasCycle(v) ==
  \/ v.t = "cyclic"
  \/ /\ v.t = "array"
     /\ \E i \in 1..Len(v.items) : HasCycle(v.items[i])

\* the text of a serializable value at nesting depth d, indentation 2
RECURSIVE JsonText(_, _)
JsonText(v, d) ==
  CASE v.t = "number" -> ToString(v.n)
    [] v.t = "string" -> Quote(v.s)
    [] v.t = "null" -> "null"
    [] v.t = "object" -> "{}"
    [] v.t = "array" ->
         IF v.items = <<>> THEN "[]"
         ELSE "[\n"
              \o JoinStr([i \in 1..Len(v.items) |->
                            Spaces(2 * (d + 1)) \o JsonText(v.items[i], d + 1)],
                         ",\n")
              \o "\n" \o Spaces(2 * d) \o "]"
    \* undefined, a function or a symbol inside an array
    [] OTHER -> "null"

\* JSON.stringify(v, null, 2): a string, undefined, or a thrown TypeError
JSONstringify(v) ==
  IF HasCycle(v) THEN [k |-> "throw", e |-> CircularError]
  ELSE IF v.t \in {"undefined", "function", "symbol"} THEN [k |-> "undefined"]
  ELSE [k |-> "string", s |-> JsonText(v, 0)]

\* the coercion of a template literal, `${e}`: a string or a thrown TypeError
TemplateString(v) ==
  CASE v.t = "string" -> [k |-> "string", s |-> v.s]
    [] v.t = "number" -> [k |-> "string", s |-> ToString(v.n)]
    [] v.t = "null" -> [k |-> "string", s |-> "null"]
    [] v.t = "undefined" -> [k |-> "string", s |-> "undefined"]
    [] v.t = "object" -> [k |-> "string", s |-> "[object Object]"]
    [] v.t = "symbol" -> [k |-> "throw", e |-> SymbolToStringError]
    [] OTHER -> [k |-> "string", s |-> "[object Object]"]

\* the coercion Array.prototype.join applies to an element
JoinElement(v) ==
  CASE v.t = "string" -> v.s
    [] v.t = "number" -> ToString(v.n)
    [] v.t \in {"null", "undefined"} -> ""
    [] OTHER -> "[object Object]"

(***************************************************************************)
(* The snippets a visitor may type, each with what the transpiler and the  *)
(* evaluation make of it: its JavaScript text (or the syntax error), the   *)
(* console.log calls it makes, and its completion (a value or a throw).    *)
(***************************************************************************)
Return(v) == [k |-> "return", v |-> v]
Throw(x)  == [k |-> "throw", e |-> x]

\* a snippet that also assigns to global names: assigns lists [name, value]
Assigning(src, js, logs, done, assigns) ==
  [src |-> src, syntax |-> TRUE, js |-> js, logs |-> logs, done |-> done,
   assigns |-> assigns]
Snippet(src, js, logs, done) == Assigning(src, js, logs, done, <<>>)
BadSnippet(src, m) ==
  [src |-> src, syntax |-> FALSE, js |-> "", logs |-> <<>>,
   done |-> Throw(Err(m, TRUE, "SyntaxError: " \o m)), assigns |-> <<>>]

Snippets ==
  { Snippet("", "", <<>>, Return(Undefined)),
    Snippet("1 + 1", "1 + 1", <<>>, Return(Num(2))),
    Snippet("const x: number = 5; x * 2", "const x = 5; x * 2", <<>>,
            Return(Num(10))),
    Snippet("console.log('a', 1)", "console.log('a', 1)",
            << <<Str("a"), Num(1)>> >>, Return(Undefined)),
    Snippet("console.log()", "console.log()", << <<>> >>, Return(Undefined)),
    Snippet("console.log('a'); console.log('b'); 2",
            "console.log('a'); console.log('b'); 2",
            << <<Str("a")>>, <<Str("b")>> >>, Return(Num(2))),
    BadSnippet("const = ;", "Unexpected token (1:7)"),
    Snippet("throw new Error('boom')", "throw new Error('boom')", <<>>,
            Throw(Err("boom", TRUE, "Error: boom\n    at eval"))),
    Snippet("throw Object.assign(new Error('bare'), {stack: undefined})",
            "throw Object.assign(new Error('bare'), {stack: undefined})", <<>>,
            Throw(Err("bare", FALSE, ""))),
    Snippet("throw 'oops'", "throw 'oops'", <<>>, Throw(Str("oops"))),
    Snippet("console.log('a'); throw 42", "console.log('a'); throw 42",
            << <<Str("a")>> >>, Throw(Num(42))),
    Snippet("throw Symbol('s')", "throw Symbol('s')", <<>>, Throw(Sym("s"))),
    Snippet("const a: any[] = []; a.push(a); a", "const a = []; a.push(a); a",
            <<>>, Return(Arr(<<Cyclic>>))),
    Snippet("R.add(1)", "R.add(1)", <<>>, Return(Fn)),
    Snippet("Symbol('s')", "Symbol('s')", <<>>, Return(Sym("s"))),
    Snippet("['a', 'use strict']", "['a', 'use strict']", <<>>,
            Return(Arr(<<Str("a"), Str("use strict")>>))),
    Snippet("'use strict'", "'use strict'", <<>>, Return(Str("use strict"))),
    Snippet("'a&b=c#d%e'", "'a&b=c#d%e'", <<>>, Return(Str("a&b=c#d%e"))),
    Assigning("R = 5", "R = 5", <<>>, Return(Num(5)),
              <<[name |-> "R", value |-> Num(5)]>>) }

Sources == {p.src : p \in Snippets}

SnippetOf(src) == CHOOSE p \in Snippets : p.src = src

\* sucrase's transform(source, {transforms: ['typescript']})
transform(src) ==
  LET p == SnippetOf(src)
  IN  IF p.syntax THEN [k |-> "ok", code |-> p.js] ELSE p.done

\* the library objects
Libs == {"R", "RA", "P"}

\* window.eval of the generated program: the prelude destructures R, RA and P,
\* so it throws a ReferenceError while they are not installed
ReferenceError(name) ==
  Err(name \o " is not defined", TRUE,
      "ReferenceError: " \o name \o " is not defined")

eval(js, w) ==
  LET p == CHOOSE q \in Snippets : q.syntax /\ q.js = js
      Stopped(x) == [logs |-> <<>>, done |-> Throw(x), assigns |-> <<>>]
  IN  IF ~w["R"].defined THEN Stopped(ReferenceError("R"))
      ELSE IF ~w["RA"].defined THEN Stopped(ReferenceError("RA"))
      ELSE IF ~w["P"].defined THEN Stopped(ReferenceError("P"))
      ELSE [logs |-> p.logs, done |-> p.done, assigns |-> p.assigns]

(***************************************************************************)
(* The name lists (handleCodeChange.tsx:11-13, input.tsx:17-19) and the    *)
(* prelude that binds them (handleCodeChange.tsx:35-38).  A library is its *)
(* export table: the sequence of the names it exports, in the iteration    *)
(* order of its namespace object, no name twice.  The value library l      *)
(* exports under name n is Export(l, n).                                   *)
(***************************************************************************)
Names == {"curry", "identity", "map"}

Range(xs) == {xs[i] : i \in 1..Len(xs)}
NoDuplicates(xs) == \A i, j \in 1..Len(xs) : xs[i] = xs[j] => i = j

\* the export tables a library may have
ExportTables ==
  {xs \in UNION {[1..n -> Names] : n \in 0..MaxExports} : NoDuplicates(xs)}

Export(l, n) == [t |-> "function", lib |-> l, name |-> n]

\* R.keys(obj): the object's own enumerable property names
keys(table) == table

\* a filter that keeps everything
withoutNothing(xs, list) == list

\* a filter that hands its result back in reverse
RECURSIVE withoutReversed(_, _)
withoutReversed(xs, list) ==
  IF list = <<>> THEN <<>>
  ELSE IF Head(list) \in Range(xs) THEN withoutReversed(xs, Tail(list))
  ELSE Append(withoutReversed(xs, Tail(list)), Head(list))

\* R.without(xs, list): list without the values that occur in xs
RECURSIVE without(_, _)
without(xs, list) ==
  IF list = <<>> THEN <<>>
  ELSE IF Head(list) \in Range(xs) THEN without(xs, Tail(list))
  ELSE <<Head(list)>> \o without(xs, Tail(list))

\* handleCodeChange.tsx:11-13  the three name lists of the export tables x
KeyLists(x) ==
  LET rk  == keys(x["R"])
      rak == without(rk, keys(x["RA"]))
      pk  == without(rk \o rak, keys(x["P"]))
  IN  [ramdaKeys |-> rk, ramdaAdjunctKeys |-> rak, purifyKeys |-> pk]

\* obj[n] of a namespace object: the export, or undefined
Get(x, l, n) == IF n \in Range(x[l]) THEN Export(l, n) ELSE Undefined

RedeclaredError(n) ==
  Err("Identifier '" \o n \o "' has already been declared", TRUE,
      "SyntaxError: Identifier '" \o n \o "' has already been declared")

\* a prelude that takes every name from the three libraries merged into one
\* object, {...R, ...RA, ...P}
PreludeMerged(rk, rak, pk, x) ==
  LET declared == rk \o rak \o pk
  IN  IF ~NoDuplicates(declared)
      THEN LET i == CHOOSE i \in 1..Len(declared) :
                      \E j \in 1..(i - 1) : declared[j] = declared[i]
           IN  [k |-> "throw", e |-> RedeclaredError(declared[i])]
      ELSE [k |-> "ok",
            scope |-> [n \in Range(declared) |->
                         IF n \in Range(x["P"]) THEN Export("P", n)
                         ELSE IF n \in Range(x["RA"]) THEN Export("RA", n)
                         ELSE Get(x, "R", n)]]

\* handleCodeChange.tsx:36-38  const {...} = R; const {...} = RA; const {...} = P
\* in one scope: a name declared twice is a SyntaxError of the whole program,
\* the one at the second declaration that comes first
Prelude(rk, rak, pk, x) ==
  LET declared == rk \o rak \o pk
  IN  IF ~NoDuplicates(declared)
      THEN LET i == CHOOSE i \in 1..Len(declared) :
                      /\ \E j \in 1..(i - 1) : declared[j] = declared[i]
                      /\ \A i2 \in 1..(i - 1) :
                           \A j \in 1..(i2 - 1) : declared[j] # declared[i2]
           IN  [k |-> "throw", e |-> RedeclaredError(declared[i])]
      ELSE [k |-> "ok",
            scope |-> [n \in Range(declared) |->
                         IF n \in Range(rk) THEN Get(x, "R", n)
                         ELSE IF n \in Range(rak) THEN Get(x, "RA", n)
                         ELSE Get(x, "P", n)]]

\* the export tables of the libraries the page is built with
Exports ==
  [l \in Libs |->
     CASE l = "R"  -> <<"curry", "identity", "map">>
       [] l = "RA" -> <<"identity">>
       [] l = "P"  -> <<"curry", "map">>]

\* no program has been evaluated yet
NoScope == [k |-> "none"]

(***************************************************************************)
(* URLs (part_003:43-45, config/editor.ts:55): new URL(href), its          *)
(* searchParams, and the application/x-www-form-urlencoded parser and      *)
(* serializer behind URLSearchParams.                                      *)
(***************************************************************************)
\* the percent-encoded bytes of the characters that are not left as they are
PercentCodes ==
  { <<" ", "%20">>, <<"\"", "%22">>, <<"#", "%23">>, <<"%", "%25">>,
    <<"&", "%26">>, <<"'", "%27">>, <<"(", "%28">>, <<")", "%29">>,
    <<"+", "%2B">>, <<",", "%2C">>, <<"/", "%2F">>, <<":", "%3A">>,
    <<";", "%3B">>, <<"=", "%3D">>, <<"?", "%3F">>, <<"[", "%5B">>,
    <<"]", "%5D">>, <<"{", "%7B">>, <<"}", "%7D">>, <<"\n", "%0A">> }

\* an encoder that leaves every character but the space as it is
EncodeCharLax(c) == IF c = " " THEN "+" ELSE c

\* the urlencoded byte serializer, one character: the space becomes a plus,
\* letters, digits and * - . _ stay, everything else is percent-encoded
EncodeChar(c) ==
  IF c = " " THEN "+"
  ELSE IF \E pc \in PercentCodes : pc[1] = c
    THEN (CHOOSE pc \in PercentCodes : pc[1] = c)[2]
  ELSE c

RECURSIVE Encode(_)
Encode(s) ==
  IF s = "" THEN ""
  ELSE EncodeChar(SubSeq(s, 1, 1)) \o Encode(SubSeq(s, 2, Len(s)))

\* the urlencoded parser's decoding: a plus is a space, %XX is its byte
RECURSIVE Decode(_)
Decode(s) ==
  IF s = "" THEN ""
  ELSE LET c == SubSeq(s, 1, 1)
       IN  IF c = "+" THEN " " \o Decode(SubSeq(s, 2, Len(s)))
           ELSE IF /\ c = "%"
                   /\ Len(s) >= 3
                   /\ \E pc \in PercentCodes : pc[2] = SubSeq(s, 1, 3)
             THEN (CHOOSE pc \in PercentCodes : pc[2] = SubSeq(s, 1, 3))[1]
                  \o Decode(SubSeq(s, 4, Len(s)))
           ELSE c \o Decode(SubSeq(s, 2, Len(s)))

\* String.prototype.split with a one-character separator
RECURSIVE Split(_, _)
Split(s, sep) ==
  LET i == IndexOf(s, sep)
  IN  IF i = 0 THEN <<s>>
      ELSE <<SubSeq(s, 1, i - 1)>> \o Split(SubSeq(s, i + 1, Len(s)), sep)

\* the urlencoded parser: the list of (name, value) pairs of a query string
ParseQuery(q) ==
  LET parts == SelectSeq(Split(q, "&"), LAMBDA part : part # "")
  IN  [i \in 1..Len(parts) |->
         LET part == parts[i]
             eq   == IndexOf(part, "=")
         IN  IF eq = 0 THEN <<Decode(part), "">>
             ELSE <<Decode(SubSeq(part, 1, eq - 1)),
                    Decode(SubSeq(part, eq + 1, Len(part)))>>]

\* the urlencoded serializer
SerializeQuery(pairs) ==
  JoinStr([i \in 1..Len(pairs) |->
             Encode(pairs[i][1]) \o "=" \o Encode(pairs[i][2])], "&")

\* new URL(href): what precedes the query, the query's pairs, the fragment
ParseURL(href) ==
  LET h    == IndexOf(href, "#")
      main == IF h = 0 THEN href ELSE SubSeq(href, 1, h - 1)
      q    == IndexOf(main, "?")
  IN  [base |-> IF q = 0 THEN main ELSE SubSeq(main, 1, q - 1),
       searchParams |->
         IF q = 0 THEN <<>> ELSE ParseQuery(SubSeq(main, q + 1, Len(main))),
       hash |-> IF h = 0 THEN "" ELSE SubSeq(href, h, Len(href))]

\* url.toString() once its searchParams have been written
URLtoString(url) ==
  url.base
  \o (IF url.searchParams = <<>> THEN ""
      ELSE "?" \o SerializeQuery(url.searchParams))
  \o url.hash

\* URLSearchParams.prototype.get: the first value of the name, <<>> for null
get(pairs, name) ==
  LET hits == {i \in 1..Len(pairs) : pairs[i][1] = name}
  IN  IF hits = {} THEN <<>>
      ELSE <<pairs[CHOOSE i \in hits : \A j \in hits : i <= j][2]>>

\* URLSearchParams.prototype.append
append(pairs, name, value) == Append(pairs, <<name, value>>)

\* URLSearchParams.prototype.set: the first pair of the name gets the value
\* and the others of the name go; a new pair is appended when there is none
set(pairs, name, value) ==
  LET hits == {i \in 1..Len(pairs) : pairs[i][1] = name}
  IN  IF hits = {} THEN Append(pairs, <<name, value>>)
      ELSE LET first == CHOOSE i \in hits : \A j \in hits : i <= j
               kept  == {i \in 1..Len(pairs) : i = first \/ pairs[i][1] # name}
               RECURSIVE Pick(_)
               Pick(i) ==
                 IF i > Len(pairs) THEN <<>>
                 ELSE IF i = first THEN <<<<name, value>>>> \o Pick(i + 1)
                 ELSE IF i \in kept THEN <<pairs[i]>> \o Pick(i + 1)
                 ELSE Pick(i + 1)
           IN  Pick(1)

\* config/editor.ts:55  new URLSearchParams(document.location.search)
\* .get('code') ?? undefined: <<>> for undefined
initialCode(href) == get(ParseURL(href).searchParams, "code")

\* config/editor.ts:70  the content of an editor created with this value option
EditorValue(value) == IF value = <<>> THEN "" ELSE value[1]

\* the page's address without query and fragment
Origin == "https://ramda-extras.test/"

\* the address that carries source s in its code parameter
Page(s) == IF s = "" THEN Origin ELSE Origin \o "?code=" \o Encode(s)

(***************************************************************************)
(* State.                                                                  *)
(***************************************************************************)
VARIABLES
  editor,         \* input.tsx:15    the editor handle signal (NULL or the widget)
  output,         \* output.tsx:11   the output handle signal
  listeners,      \* content-change listeners registered on the editor
  text,           \* the editor widget's content
  outText,        \* the output widget's content
  initialized,    \* app.tsx:10      the start-up guard signal
  effectDeps,     \* the signals the effect of app.tsx:12 is subscribed to
  effectRunning,  \* the effect's callback is on the call stack
  effectReads,    \* the signals the running effect has read so far
  effectPending,  \* the effect was notified while running and runs again
  id,             \* input.tsx:23    the debounce closure's timer id
  timers,         \* the browser's armed timers: [id, left], left the ms to go
  nextId,         \* the last timer id the browser handed out
  logData,        \* logger.ts:4     the captured console.log calls
  window,         \* the global object's R, RA and P properties
  pc,             \* the position of the innermost handleCodeChange call
  stack,          \* the callers of the handleCodeChange calls in progress
  js,             \* handleCodeChange.tsx:19  the transpiled code
  result,         \* handleCodeChange.tsx:43  the evaluation's value
  e,              \* handleCodeChange.tsx:55  the caught value
  run,            \* history: what the latest handleCodeChange call did
  hist,           \* history: notifications, timers and runs so far
  exports,        \* handleCodeChange.tsx:1-4  the export tables of R, RA and P
  loaded,         \* the module handleCodeChange.tsx has been evaluated
  ramdaKeys,      \* handleCodeChange.tsx:11
  ramdaAdjunctKeys, \* handleCodeChange.tsx:12
  purifyKeys,     \* handleCodeChange.tsx:13
  scope,          \* the bindings of the prelude of the latest evaluation
  location,       \* document.location.href
  clipboard       \* the system clipboard's text

progVars   == <<editor, output, listeners, text, outText, logData, window>>
effectVars == <<initialized, effectDeps, effectRunning, effectReads, effectPending>>
timerVars  == <<id, timers, nextId>>
frameVars  == <<pc, stack, js, result, e>>
keyVars    == <<loaded, ramdaKeys, ramdaAdjunctKeys, purifyKeys>>
envVars    == <<exports, keyVars, location, clipboard>>
vars == <<progVars, effectVars, timerVars, frameVars, run, hist, envVars, scope>>

NoRun ==
  [kind |-> "none", src |-> "", transformed |-> FALSE, evaluated |-> FALSE,
   evalDone |-> FALSE, caught |-> 0, writes |-> 0, thrown |-> <<>>,
   stage |-> "none", logs |-> <<>>, value |-> <<>>, done |-> FALSE,
   escaped |-> <<>>, outBefore |-> "", stale |-> 0, shown |-> <<>>]

\* a run's record as it starts: stale counts the entries the captured-log list
\* holds from before the run
NewRun(k) ==
  [NoRun EXCEPT !.kind = k, !.outBefore = outText, !.stale = Len(logData)]

NULL == "null"

\* the effect without its initialized guard
effectUnguarded(init, ed, out) ==
  [run |-> ed # NULL /\ out # NULL,
   reads |-> {"editor"} \cup (IF ed # NULL THEN {"output"} ELSE {})]

\* the effect that does not wait for the output handle
effectEager(init, ed, out) ==
  [run |-> ~init /\ ed # NULL,
   reads |-> {"initialized"} \cup (IF ~init THEN {"editor"} ELSE {})]

\* app.tsx:13  !initialized.value && editor.value && output.value: whether
\* the body runs, and the signals the short-circuit evaluation reads
effect(init, ed, out) ==
  [run |-> ~init /\ ed # NULL /\ out # NULL,
   reads |-> {"initialized"}
             \cup (IF ~init THEN {"editor"} ELSE {})
             \cup (IF ~init /\ ed # NULL THEN {"output"} ELSE {})]

\* the namespace object of library l
Namespace(l) == [t |-> "module", lib |-> l]

Absent == [defined |-> FALSE, value |-> Undefined, writable |-> FALSE]

\* the clipboard holds <<text>>, or nothing the page has written
NoClip == <<>>

\* history of the latest share action: the editor text and the address it
\* found, whether it wrote, and the clipboard before it
NoShare ==
  [called |-> FALSE, text |-> "", href |-> "", wrote |-> FALSE,
   before |-> NoClip]

\* the page at address href has been loaded and rendered; nothing is mounted
PageLoaded(href) ==
  /\ location = href
  /\ clipboard = NoClip
  /\ editor = NULL
  /\ output = NULL
  /\ listeners = 0
  \* config/editor.ts:55-70: the content the editor is created with
  /\ text = EditorValue(initialCode(href))
  /\ outText = ""
  /\ initialized = FALSE
  \* app.tsx:12-17 ran once at module load: it read initialized and editor
  /\ effectDeps = effect(FALSE, NULL, NULL).reads
  /\ effectRunning = FALSE
  /\ effectReads = {}
  /\ effectPending = FALSE
  /\ id = -1
  /\ timers = {}
  /\ nextId = 0
  /\ logData = <<>>
  /\ window = [l \in Libs |-> Absent]
  /\ pc = "idle"
  /\ stack = <<>>
  /\ js = ""
  /\ result = Undefined
  /\ e = Undefined
  /\ run = NoRun
  /\ scope = NoScope
  /\ hist = [sinceNotify |-> -1, notifyText |-> "", notifications |-> 0,
             burstLen |-> 0, burstRuns |-> 0, runsSinceNotify |-> 0,
             fires |-> 0, debRuns |-> 0, initRuns |-> 0,
             replaced |-> {}, fired |-> {}, maxDepth |-> 0,
             editors |-> 0, outputs |-> 0, closures |-> 0,
             shared |-> NoShare, nullCalls |-> 0]

\* handleCodeChange.tsx:11-13 has been evaluated with the export tables x
KeysLoaded(x) ==
  /\ exports = x
  /\ loaded = TRUE
  /\ ramdaKeys = KeyLists(x).ramdaKeys
  /\ ramdaAdjunctKeys = KeyLists(x).ramdaAdjunctKeys
  /\ purifyKeys = KeyLists(x).purifyKeys

\* the addresses the page is opened at: without a code parameter, and with
\* one that evaluates, one that does not transpile, one that throws a symbol
Pages == {Page(s) : s \in {"", "1 + 1", "const = ;", "throw Symbol('s')"}}

Init ==
  /\ \E href \in Pages : PageLoaded(href)
  /\ KeysLoaded(Exports)

(***************************************************************************)
(* handleCodeChange: entry and exit (handleCodeChange.tsx:15-16, 63-64).   *)
(* A context c tells a call what it returns to: the call stack st below    *)
(* it, the position cont its caller continues at, and the history records  *)
(* h and r as they stand when no run starts.                               *)
(***************************************************************************)
Max(a, b) == IF a >= b THEN a ELSE b
Min(a, b) == IF a <= b THEN a ELSE b

Ctx(st, cont, h, r) == [st |-> st, cont |-> cont, h |-> h, r |-> r]

\* the body is entered: a run starts, called by k ("initial" or "debounced")
Enter(k, c) ==
  /\ pc' = "transform"
  /\ stack' = Append(c.st, k)
  /\ run' = NewRun(k)
  /\ hist' = [c.h EXCEPT
       !.debRuns = IF k = "debounced" THEN @ + 1 ELSE @,
       !.burstRuns = IF k = "debounced" THEN @ + 1 ELSE @,
       !.runsSinceNotify = IF k = "debounced" THEN @ + 1 ELSE @,
       !.initRuns = IF k = "initial" THEN @ + 1 ELSE @,
       !.maxDepth = Max(@, Len(c.st) + 1)]

\* no run starts: the caller goes on
Skip(c) ==
  /\ pc' = c.cont
  /\ stack' = c.st
  /\ run' = c.r
  /\ hist' = c.h

\* the routine without its guard on the two handles
handleCodeChangeUnguarded(k, ed, out, c) == Enter(k, c)

\* handleCodeChange.tsx:16  if (output.value && editor.value), else nothing
handleCodeChange(k, ed, out, c) ==
  IF out # NULL /\ ed # NULL THEN Enter(k, c) ELSE Skip(c)

(***************************************************************************)
(* The start-up effect (app.tsx:10-17).                                    *)
(***************************************************************************)
\* one run of the effect's callback, subscribed to deps when it starts
RunEffect(deps, ed, out, c) ==
  LET q == effect(initialized, ed, out)
  IN  IF q.run
      THEN /\ initialized' = TRUE                               \* app.tsx:14
           \* the write notifies the effect itself when it reads initialized
           /\ effectPending' =
                (~initialized /\ "initialized" \in deps \cup q.reads)
           /\ effectRunning' = TRUE
           /\ effectReads' = q.reads
           /\ effectDeps' = deps \cup q.reads
           /\ handleCodeChange("initial", ed, out, c)           \* app.tsx:15
      ELSE /\ effectDeps' = q.reads
           /\ effectRunning' = FALSE
           /\ effectReads' = {}
           /\ effectPending' = FALSE
           /\ initialized' = initialized
           /\ Skip(c)

\* a write of signal sig: a subscribed effect runs at once, or, when it is the
\* one writing, once more after its callback returns
EffectNotified(sig, ed, out, c) ==
  IF sig \in effectDeps /\ ~effectRunning
  THEN RunEffect(effectDeps, ed, out, c)
  ELSE /\ effectPending' = (effectPending \/ sig \in effectDeps)
       /\ UNCHANGED <<initialized, effectDeps, effectRunning, effectReads>>
       /\ Skip(c)

\* the signals a handleCodeChange call read: r is its record
HandlerReads(r) ==
  {"output", "editor"}
  \cup (IF r.evalDone \/ r.logs # <<>> THEN {"logData"} ELSE {})

\* handleCodeChange returns (or throws x, when x # <<>>); r is the run's record
Leave(r, x) ==
  LET k    == stack[Len(stack)]
      rest == SubSeq(stack, 1, Len(stack) - 1)
      c    == Ctx(rest, IF rest = <<>> THEN "idle" ELSE "define", hist,
                  [r EXCEPT !.done = TRUE, !.escaped = x])
  IN  IF k = "initial"
      THEN \* the effect's callback ends; a notified effect runs again
           IF effectPending
           THEN RunEffect(effectReads \cup HandlerReads(r), editor, output, c)
           ELSE /\ effectDeps' = effectReads \cup HandlerReads(r)
                /\ effectRunning' = FALSE
                /\ effectReads' = {}
                /\ UNCHANGED <<effectPending, initialized>>
                /\ Skip(c)
      ELSE /\ UNCHANGED effectVars
           /\ Skip(c)

(***************************************************************************)
(* Mounting (main.tsx:16 renders App once; app.tsx:19-25 renders Input     *)
(* before Output, so Input's mount effect runs first, and both run in one  *)
(* flush before any user event).                                           *)
(***************************************************************************)
\* a mount effect that runs again after every render
MountInputAgain ==
  /\ pc = "idle"
  /\ loaded
  /\ editor' = "editor"
  /\ EffectNotified("editor", "editor", output,
       Ctx(stack, pc,
           [hist EXCEPT !.editors = @ + 1, !.closures = @ + 1], run))
  /\ listeners' = listeners + 1
  /\ UNCHANGED <<output, text, outText, logData, window, timerVars,
                 js, result, e>>
  /\ UNCHANGED <<envVars, scope>>

\* input.tsx:33-38  useEffect(..., [ref]): the ref object never changes, so
\* the effect runs after the first render only, when editor.value is null
MountInput ==
  /\ pc = "idle"
  /\ loaded
  /\ editor = NULL
  /\ editor' = "editor"                       \* E.create(ref, editorOptions)
  /\ EffectNotified("editor", "editor", output,
       Ctx(stack, pc,
           [hist EXCEPT !.editors = @ + 1, !.closures = @ + 1], run))
  /\ listeners' = listeners + 1               \* onDidChangeModelContent(...)
  /\ UNCHANGED <<output, text, outText, logData, window, timerVars,
                 js, result, e>>
  /\ UNCHANGED <<envVars, scope>>

\* output.tsx:16-20
MountOutput ==
  /\ pc = "idle"
  /\ editor # NULL
  /\ output = NULL
  /\ output' = "output"                       \* E.create(ref, viewerOptions)
  /\ outText' = ""
  /\ EffectNotified("output", editor, "output",
       Ctx(stack, pc, [hist EXCEPT !.outputs = @ + 1], run))
  /\ UNCHANGED <<editor, listeners, text, logData, window, timerVars,
                 js, result, e>>
  /\ UNCHANGED <<envVars, scope>>

Mounted == editor # NULL /\ output # NULL

(***************************************************************************)
(* The debounce closure (input.tsx:21-28) and the clock.                   *)
(***************************************************************************)
\* clearTimeout(i): nothing when no armed timer has that id
clearTimeout(ts, i) == {t \in ts : t.id # i}

\* the closure without its clearTimeout
debouncedNoClear ==
  /\ timers' = timers \cup {[id |-> nextId + 1, left |-> Delay]}
  /\ id' = nextId + 1
  /\ nextId' = nextId + 1

\* the closure that does not keep the id setTimeout returns
debouncedLosesId ==
  /\ timers' = clearTimeout(timers, id)
                 \cup {[id |-> nextId + 1, left |-> Delay]}
  /\ id' = id
  /\ nextId' = nextId + 1

\* the closure arming its timer with no delay
debouncedNoDelay ==
  /\ timers' = clearTimeout(timers, id)
                 \cup {[id |-> nextId + 1, left |-> 0]}
  /\ id' = nextId + 1
  /\ nextId' = nextId + 1

\* input.tsx:24-27  the closure debounced(handleCodeChange) returns
debounced ==
  /\ timers' = clearTimeout(timers, id)
                 \cup {[id |-> nextId + 1, left |-> Delay]}
  /\ id' = nextId + 1
  /\ nextId' = nextId + 1

\* the editor's content changes to s and the widget notifies its listener
ContentChange(s) ==
  /\ pc = "idle"
  /\ Mounted
  /\ listeners > 0
  /\ nextId < MaxTimers
  /\ text' = s
  /\ debounced
  /\ LET inBurst == hist.sinceNotify >= 0 /\ hist.sinceNotify < Delay
     IN  hist' = [hist EXCEPT
           !.sinceNotify = 0,
           !.notifyText = s,
           !.notifications = @ + 1,
           !.burstLen = IF inBurst THEN @ + 1 ELSE 1,
           !.burstRuns = IF inBurst THEN @ ELSE 0,
           !.runsSinceNotify = 0,
           !.replaced = @ \cup {t.id : t \in timers}]
  /\ UNCHANGED <<editor, output, listeners, outText, logData, window,
                 effectVars, frameVars, run>>
  /\ UNCHANGED <<envVars, scope>>

\* TickMs pass; the time since the last notification is kept up to Delay
Tick ==
  /\ pc = "idle"
  /\ Mounted
  /\ timers' = {[t EXCEPT !.left = Max(0, @ - TickMs)] : t \in timers}
  /\ hist' = [hist EXCEPT
       !.sinceNotify = IF @ < 0 THEN @ ELSE Min(Delay, @ + TickMs)]
  /\ UNCHANGED <<progVars, effectVars, id, nextId, frameVars, run>>
  /\ UNCHANGED <<envVars, scope>>

\* a timer that stays armed after it fired, as setInterval's does
TimerFireRepeats ==
  /\ pc = "idle"
  /\ \E t \in timers :
       /\ t.left = 0
       /\ timers' = timers
       /\ handleCodeChange("debounced", editor, output,
            Ctx(stack, pc,
                [hist EXCEPT !.fires = @ + 1, !.fired = @ \cup {t.id}], run))
  /\ UNCHANGED <<progVars, effectVars, id, nextId, js, result, e>>
  /\ UNCHANGED <<envVars, scope>>

\* an armed timer whose delay has passed fires: setTimeout's callback runs
TimerFire ==
  /\ pc = "idle"
  /\ \E t \in timers :
       /\ t.left = 0
       /\ timers' = timers \ {t}
       /\ handleCodeChange("debounced", editor, output,
            Ctx(stack, pc,
                [hist EXCEPT !.fires = @ + 1, !.fired = @ \cup {t.id}], run))
  /\ UNCHANGED <<progVars, effectVars, id, nextId, js, result, e>>
  /\ UNCHANGED <<envVars, scope>>

(***************************************************************************)
(* The pipeline (handleCodeChange.tsx:17-62), one action per statement.    *)
(* It is synchronous: while pc # "idle" no other callback runs.            *)
(***************************************************************************)
Raised(r, x, stage) == [r EXCEPT !.thrown = Append(@, x), !.stage = stage]

\* handleCodeChange.tsx:19-21  transform(editor.value.getValue(), ...)
Transform ==
  /\ pc = "transform"
  /\ LET t == transform(text)
         r == [run EXCEPT !.src = text]
     IN  IF t.k = "ok"
         THEN /\ js' = t.code
              /\ e' = e
              /\ pc' = "reset"
              /\ run' = [r EXCEPT !.transformed = TRUE]
         ELSE /\ js' = js
              /\ e' = t.e
              /\ pc' = "catch"
              /\ run' = Raised(r, t.e, "transform")
  /\ UNCHANGED <<progVars, effectVars, timerVars, stack, result, hist>>
  /\ UNCHANGED <<envVars, scope>>

\* the run that keeps the captured-log list as it finds it
ResetLogKeeps ==
  /\ pc = "reset"
  /\ logData' = logData
  /\ Skip(Ctx(stack, "define", hist, run))
  /\ UNCHANGED <<editor, output, listeners, text, outText, window, effectVars,
                 timerVars, js, result, e>>
  /\ UNCHANGED <<envVars, scope>>

\* handleCodeChange.tsx:23  logData.value = []
ResetLog ==
  /\ pc = "reset"
  /\ logData' = <<>>
  /\ EffectNotified("logData", editor, output, Ctx(stack, "define", hist, run))
  /\ UNCHANGED <<editor, output, listeners, text, outText, window, timerVars,
                 js, result, e>>
  /\ UNCHANGED <<envVars, scope>>

\* a descriptor that leaves the property writable
InstalledWritable(l) ==
  [defined |-> TRUE, value |-> Namespace(l), writable |-> TRUE]

\* handleCodeChange.tsx:27-29  { value: R, writable: false }; configurable
\* and enumerable default to false
Installed(l) == [defined |-> TRUE, value |-> Namespace(l), writable |-> FALSE]

RedefineError(l) ==
  Err("Cannot redefine property: " \o l, TRUE,
      "TypeError: Cannot redefine property: " \o l)

\* the definition of a data property on a property cur that, when it exists,
\* is not configurable: a writable one takes the value and the attribute, a
\* non-writable one accepts only what it already is
defineProperty(cur, desc) ==
  IF ~cur.defined \/ cur.writable THEN [ok |-> TRUE, prop |-> desc]
  ELSE IF desc.writable \/ desc.value # cur.value
    THEN [ok |-> FALSE, prop |-> cur]
  ELSE [ok |-> TRUE, prop |-> cur]

\* handleCodeChange.tsx:26-30  Object.defineProperties(window, {R, RA, P}):
\* the properties are defined in order, up to the first that is refused
DefineGlobals ==
  /\ pc = "define"
  /\ LET order == <<"R", "RA", "P">>
         res == [l \in Libs |-> defineProperty(window[l], Installed(l))]
         bad == {i \in 1..Len(order) : ~res[order[i]].ok}
     IN  IF bad = {}
         THEN /\ window' = [l \in Libs |-> res[l].prop]
              /\ e' = e
              /\ pc' = "eval"
              /\ run' = run
         ELSE LET f == CHOOSE i \in bad : \A j \in bad : i <= j
              IN  /\ window' =
                       [l \in Libs |->
                          IF \E i \in 1..(f - 1) : order[i] = l
                          THEN res[l].prop ELSE window[l]]
                  /\ e' = RedefineError(order[f])
                  /\ pc' = "catch"
                  /\ run' = Raised(run, RedefineError(order[f]), "define")
  /\ UNCHANGED <<editor, output, listeners, text, outText, logData,
                 effectVars, timerVars, stack, js, result, hist>>
  /\ UNCHANGED <<envVars, scope>>

\* an assignment name = value of sloppy-mode code to a global name: it creates
\* the property, writes a writable one and leaves a non-writable one alone
Assign(w, a) ==
  IF a.name \notin DOMAIN w THEN w
  ELSE IF ~w[a.name].defined
    THEN [w EXCEPT ![a.name] =
            [defined |-> TRUE, value |-> a.value, writable |-> TRUE]]
  ELSE IF w[a.name].writable THEN [w EXCEPT ![a.name].value = a.value]
  ELSE w

RECURSIVE AssignAll(_, _)
AssignAll(w, as) ==
  IF as = <<>> THEN w ELSE AssignAll(Assign(w, Head(as)), Tail(as))

\* handleCodeChange.tsx:35-43  window.eval(code); every console.log call of
\* the evaluated code pushes its arguments onto logData.value (logger.ts:6-11)
Eval ==
  /\ pc = "eval"
  /\ LET pre == Prelude(ramdaKeys, ramdaAdjunctKeys, purifyKeys, exports)
         v == IF pre.k = "throw"
              THEN [logs |-> <<>>, done |-> pre, assigns |-> <<>>]
              ELSE eval(js, window)
         r == [run EXCEPT !.evaluated = TRUE, !.logs = v.logs]
     IN  /\ logData' = logData \o v.logs
         /\ window' = AssignAll(window, v.assigns)
         /\ scope' = IF pre.k = "ok" /\ \A l \in Libs : window[l].defined
                     THEN pre.scope ELSE NoScope
         /\ IF v.done.k = "return"
            THEN /\ result' = v.done.v
                 /\ e' = e
                 /\ pc' = "show"
                 /\ run' = [r EXCEPT !.evalDone = TRUE, !.value = <<v.done.v>>]
            ELSE /\ result' = result
                 /\ e' = v.done.e
                 /\ pc' = "catch"
                 /\ run' = Raised(r, v.done.e, "eval")
  /\ UNCHANGED <<editor, output, listeners, text, outText,
                 effectVars, timerVars, stack, js, hist, envVars>>

\* handleCodeChange.tsx:44  logData.value.map(join(', ')).join('\n')
LoggedText(ld) ==
  JoinStr([i \in 1..Len(ld) |->
             JoinStr([j \in 1..Len(ld[i]) |-> JoinElement(ld[i][j])], ", ")],
          "\n")

\* the display that puts the result ahead of the logged lines
showResultAhead(res, ld) ==
  LET loggedText == LoggedText(ld)
  IN  IF res # Undefined
      THEN LET j == JSONstringify(res)
           IN  IF j.k = "throw" THEN j
               ELSE IF j.k = "undefined"
                 THEN [k |-> "throw", e |-> ReplaceOfUndefinedError]
               ELSE [k |-> "set",
                     s |-> ReplaceFirst(j.s, "\"use strict\"", "")
                           \o "\n" \o loggedText]
      ELSE IF loggedText # "" THEN [k |-> "set", s |-> loggedText]
      ELSE [k |-> "set", s |-> ""]

\* the display that prints the word undefined for a value JSON.stringify has
\* no text for, and raises nothing
showMissingTextAsUndefined(res, ld) ==
  LET loggedText == LoggedText(ld)
  IN  IF res # Undefined
      THEN LET j == JSONstringify(res)
           IN  IF j.k = "throw" THEN j
               ELSE IF j.k = "undefined"
                 THEN [k |-> "set", s |-> loggedText \o "\n" \o "undefined"]
               ELSE [k |-> "set",
                     s |-> loggedText \o "\n"
                           \o ReplaceFirst(j.s, "\"use strict\"", "")]
      ELSE IF loggedText # "" THEN [k |-> "set", s |-> loggedText]
      ELSE [k |-> "set", s |-> ""]

\* the display that prints an undefined result as text
showUndefinedAsText(res, ld) ==
  LET loggedText == LoggedText(ld)
      j == JSONstringify(res)
  IN  IF j.k = "throw" THEN j
      ELSE IF j.k = "undefined"
        THEN [k |-> "set", s |-> loggedText \o "undefined"]
      ELSE [k |-> "set",
            s |-> loggedText \o "\n" \o ReplaceFirst(j.s, "\"use strict\"", "")]

\* handleCodeChange.tsx:44-54  the text set on the output, or what is thrown
show(res, ld) ==
  LET loggedText == LoggedText(ld)
  IN  IF res # Undefined
      THEN LET j == JSONstringify(res)
           IN  IF j.k = "throw" THEN j
               ELSE IF j.k = "undefined"
                 THEN [k |-> "throw", e |-> ReplaceOfUndefinedError]
               ELSE [k |-> "set",
                     s |-> loggedText \o "\n"
                           \o ReplaceFirst(j.s, "\"use strict\"", "")]
      ELSE IF loggedText # "" THEN [k |-> "set", s |-> loggedText]
      ELSE [k |-> "set", s |-> ""]

\* the display with its stringification outside the try block
ShowOutsideTry ==
  /\ pc = "show"
  /\ LET v == show(result, logData)
     IN  IF v.k = "set"
         THEN /\ outText' = v.s
              /\ Leave([run EXCEPT !.writes = @ + 1, !.shown = logData], <<>>)
         ELSE /\ outText' = outText
              /\ Leave(Raised([run EXCEPT !.shown = logData], v.e, "show"),
                       <<v.e>>)
  /\ UNCHANGED <<editor, output, listeners, text, logData, window, timerVars,
                 js, result, e>>
  /\ UNCHANGED <<envVars, scope>>

Show ==
  /\ pc = "show"
  /\ LET v == show(result, logData)
     IN  IF v.k = "set"
         THEN /\ outText' = v.s                \* output.value.setValue(...)
              /\ e' = e
              /\ Leave([run EXCEPT !.writes = @ + 1, !.shown = logData], <<>>)
         ELSE /\ outText' = outText
              /\ e' = v.e
              /\ pc' = "catch"
              /\ run' = Raised([run EXCEPT !.shown = logData], v.e, "show")
              /\ UNCHANGED <<effectVars, stack, hist>>
  /\ UNCHANGED <<editor, output, listeners, text, logData, window, timerVars,
                 js, result>>
  /\ UNCHANGED <<envVars, scope>>

\* the error text without the ?? '' default of the stack
catchNoStackDefault(x) ==
  IF x.t = "Error"
  THEN [k |-> "set",
        s |-> x.message \o "\n" \o (IF x.hasStack THEN x.stack ELSE "undefined")]
  ELSE LET c == TemplateString(x)
       IN  IF c.k = "throw" THEN c ELSE [k |-> "set", s |-> c.s]

\* handleCodeChange.tsx:56-60  the text set on the output, or what is thrown
catch(x) ==
  IF x.t = "Error"
  THEN [k |-> "set",
        s |-> x.message \o "\n" \o (IF x.hasStack THEN x.stack ELSE "")]
  ELSE LET c == TemplateString(x)
       IN  IF c.k = "throw" THEN c ELSE [k |-> "set", s |-> c.s]

\* an error handler that also empties the editor and drops its listener
CatchClearsEditor ==
  /\ pc = "catch"
  /\ LET v == catch(e)
         r == [run EXCEPT !.caught = @ + 1]
     IN  IF v.k = "set"
         THEN /\ outText' = v.s
              /\ Leave([r EXCEPT !.writes = @ + 1], <<>>)
         ELSE /\ outText' = outText
              /\ Leave(r, <<v.e>>)
  /\ text' = ""
  /\ listeners' = 0
  /\ UNCHANGED <<editor, output, logData, window, timerVars, js, result, e>>
  /\ UNCHANGED <<envVars, scope>>

\* handleCodeChange.tsx:55-62; the output widget was created without a model
\* option, so getModel() is its own model
Catch ==
  /\ pc = "catch"
  /\ LET v == catch(e)
         r == [run EXCEPT !.caught = @ + 1]
     IN  IF v.k = "set"
         THEN /\ outText' = v.s
              /\ Leave([r EXCEPT !.writes = @ + 1], <<>>)
         ELSE /\ outText' = outText
              /\ Leave(r, <<v.e>>)
  /\ UNCHANGED <<editor, output, listeners, text, logData, window, timerVars,
                 js, result, e>>
  /\ UNCHANGED <<envVars, scope>>

(***************************************************************************)
(* Module evaluation of handleCodeChange.tsx (lines 11-13), which the      *)
(* import of input.tsx:13 brings about before anything is rendered.        *)
(***************************************************************************)
LoadModule ==
  /\ ~loaded
  /\ loaded' = TRUE
  /\ ramdaKeys' = KeyLists(exports).ramdaKeys
  /\ ramdaAdjunctKeys' = KeyLists(exports).ramdaAdjunctKeys
  /\ purifyKeys' = KeyLists(exports).purifyKeys
  /\ UNCHANGED <<progVars, effectVars, timerVars, frameVars, run, hist,
                 exports, location, clipboard, scope>>

(***************************************************************************)
(* The share button (part_003:40-47, 66).                                  *)
(***************************************************************************)
\* a share action that appends its parameter
SharedURLAppending(href, code) ==
  LET url == ParseURL(href)
  IN  URLtoString([url EXCEPT !.searchParams = append(@, "code", code)])

\* part_003:43-45  the text a share action puts on the clipboard
SharedURL(href, code) ==
  LET url == ParseURL(href)
  IN  URLtoString([url EXCEPT !.searchParams = set(@, "code", code)])

Shared(wrote) ==
  [called |-> TRUE, text |-> text, href |-> location, wrote |-> wrote,
   before |-> clipboard]

\* a share action without its if (code)
copyCodeUnguarded ==
  /\ pc = "idle"
  /\ Mounted
  /\ clipboard' = <<SharedURL(location, text)>>
  /\ hist' = [hist EXCEPT !.shared = Shared(TRUE)]
  /\ UNCHANGED <<progVars, effectVars, timerVars, frameVars, run,
                 exports, keyVars, location, scope>>

\* part_003:40-47; the button is there once the page is rendered and mounted
copyCode ==
  /\ pc = "idle"
  /\ Mounted
  /\ LET code == IF editor = NULL THEN "" ELSE text  \* editor.value?.getValue()
     IN  IF code # ""                                  \* if (code)
         THEN /\ clipboard' = <<SharedURL(location, code)>>
              /\ hist' = [hist EXCEPT !.shared = Shared(TRUE)]
         ELSE /\ clipboard' = clipboard
              /\ hist' = [hist EXCEPT !.shared = Shared(FALSE)]
  /\ UNCHANGED <<progVars, effectVars, timerVars, frameVars, run,
                 exports, keyVars, location, scope>>

Next ==
  \/ MountInput
  \/ MountOutput
  \/ \E s \in Sources : ContentChange(s)
  \/ Tick
  \/ TimerFire
  \/ Transform
  \/ ResetLog
  \/ DefineGlobals
  \/ Eval
  \/ Show
  \/ Catch

Spec == Init /\ [][Next]_vars

(***************************************************************************)
(* The page built with any three libraries: start-up, from the evaluation  *)
(* of the module to the end of the first run.                              *)
(***************************************************************************)
InitKeys ==
  /\ \E href \in {Page("1 + 1"), Page("throw 'oops'")} : PageLoaded(href)
  /\ exports \in [Libs -> ExportTables]
  /\ loaded = FALSE
  /\ ramdaKeys = <<>>
  /\ ramdaAdjunctKeys = <<>>
  /\ purifyKeys = <<>>

NextKeys ==
  \/ LoadModule
  \/ MountInput
  \/ MountOutput
  \/ Transform
  \/ ResetLog
  \/ DefineGlobals
  \/ Eval
  \/ Show
  \/ Catch

SpecKeys == InitKeys /\ [][NextKeys]_vars

(***************************************************************************)
(* The page with its share button, opened at addresses that carry other    *)
(* parameters, several code parameters and a fragment.                     *)
(***************************************************************************)
ShareSources == {"", "1 + 1", "'a&b=c#d%e'"}

SharePages ==
  { Origin,
    Origin \o "?code=const+%3D+%3B",
    Origin \o "?theme=dark&code=&flag&code=R.add(1)#top",
    Origin \o "?q=a%20b&code=%27a%26b%3Dc%23d%25e%27#code=x" }

InitShare ==
  /\ \E href \in SharePages : PageLoaded(href)
  /\ KeysLoaded(Exports)

NextShare ==
  \/ MountInput
  \/ MountOutput
  \/ \E s \in ShareSources : ContentChange(s)
  \/ Tick
  \/ TimerFire
  \/ Transform
  \/ ResetLog
  \/ DefineGlobals
  \/ Eval
  \/ Show
  \/ Catch
  \/ copyCode

SpecShare == InitShare /\ [][NextShare]_vars

(***************************************************************************)
(* The page with two more callers: a module that imports handleCodeChange  *)
(* and calls it at any time, mounted or not, and code that calls           *)
(* console.log outside a run (a callback an evaluated snippet left behind, *)
(* or the page's own code).                                                *)
(***************************************************************************)
\* the entries the captured-log list may hold when an outside call adds one
MaxLogged == 2
\* the calls of handleCodeChange made while a handle is null
MaxNullCalls == 2

\* logger.ts:6-11  console.log('late') outside a run: the proxy pushes the
\* argument list onto logData.value; a push is no signal write
ConsoleLog ==
  /\ pc = "idle"
  /\ Len(logData) < MaxLogged
  /\ logData' = Append(logData, <<Str("late")>>)
  /\ UNCHANGED <<editor, output, listeners, text, outText, window, effectVars,
                 timerVars, frameVars, run, hist>>
  /\ UNCHANGED <<envVars, scope>>

\* handleCodeChange.tsx:15  handleCodeChange() called directly
Invoke ==
  /\ pc = "idle"
  /\ LET null == editor = NULL \/ output = NULL
     IN  /\ null => hist.nullCalls < MaxNullCalls
         /\ handleCodeChange("direct", editor, output,
              Ctx(stack, pc,
                  [hist EXCEPT !.nullCalls = IF null THEN @ + 1 ELSE @], run))
  /\ UNCHANGED <<progVars, effectVars, timerVars, js, result, e>>
  /\ UNCHANGED <<envVars, scope>>

CallSources ==
  {"console.log('a', 1)", "console.log('a'); console.log('b'); 2", "const = ;"}

CallPages == {Page(s) : s \in {"1 + 1", "console.log('a', 1)"}}

InitCalls ==
  /\ \E href \in CallPages : PageLoaded(href)
  /\ KeysLoaded(Exports)

NextCalls ==
  \/ MountInput
  \/ MountOutput
  \/ \E s \in CallSources : ContentChange(s)
  \/ Tick
  \/ TimerFire
  \/ Transform
  \/ ResetLog
  \/ DefineGlobals
  \/ Eval
  \/ Show
  \/ Catch
  \/ Invoke
  \/ ConsoleLog

SpecCalls == InitCalls /\ [][NextCalls]_vars

(***************************************************************************)
(* The page under fair scheduling: both mount effects run in the first     *)
(* flush, time passes, a timer whose delay has passed fires, and the       *)
(* pipeline, being synchronous code, runs each of its statements.  A       *)
(* visitor's typing is under no fairness: it may stop at any time.         *)
(***************************************************************************)
LiveSources == {"1 + 1", "const = ;", "throw Symbol('s')"}

LivePages == {Page("1 + 1"), Page("const = ;")}

InitLive ==
  /\ \E href \in LivePages : PageLoaded(href)
  /\ KeysLoaded(Exports)

NextLive ==
  \/ MountInput
  \/ MountOutput
  \/ \E s \in LiveSources : ContentChange(s)
  \/ Tick
  \/ TimerFire
  \/ Transform
  \/ ResetLog
  \/ DefineGlobals
  \/ Eval
  \/ Show
  \/ Catch

Fairness ==
  /\ WF_vars(MountInput)
  /\ WF_vars(MountOutput)
  /\ WF_vars(Tick)
  /\ WF_vars(TimerFire)
  /\ WF_vars(Transform)
  /\ WF_vars(ResetLog)
  /\ WF_vars(DefineGlobals)
  /\ WF_vars(Eval)
  /\ WF_vars(Show)
  /\ WF_vars(Catch)

SpecLive == InitLive /\ [][NextLive]_vars /\ Fairness

(***************************************************************************)
(* Properties.                                                             *)
(***************************************************************************)
Idle == timers = {}
Pending == timers # {}
InDebouncedRun == stack # <<>> /\ run.kind = "debounced"

\* C1: Debounce idempotence. Of a burst of N >= 1 content-change
\* notifications, each less than Delay after the one before, exactly one
\* pipeline run results: none while the burst's timer is pending, one once it
\* has fired; the run starts only when Delay has passed since the last
\* notification and reads the editor content as of that notification.
C1_DebounceIdempotence ==
  hist.burstLen >= 1 =>
    /\ hist.burstRuns <= 1
    /\ Pending => hist.burstRuns = 0
    /\ Idle => hist.burstRuns = 1
    /\ InDebouncedRun => hist.sinceNotify >= Delay
    /\ (run.kind = "debounced" /\ pc # "transform" /\ hist.burstRuns = 1)
         => run.src = hist.notifyText

\* a burst of two notifications has led to one finished run on the last text
C1_Witness ==
  /\ hist.burstLen >= 2
  /\ hist.burstRuns = 1
  /\ pc = "idle"
  /\ run.kind = "debounced"
  /\ run.done
  /\ run.src = hist.notifyText
  /\ hist.debRuns = 1

\* C2: At most one debounce timer is armed at any time, and it is the one the
\* last notification armed, Delay after that notification: a timer that was
\* pending when a notification arrived is cancelled and never fires.
C2_OneTimer ==
  /\ Cardinality(timers) <= 1
  /\ \A t \in timers :
       /\ t.id = id
       /\ t.id \notin hist.replaced
       /\ t.left = Delay - hist.sinceNotify
  /\ hist.fired \cap hist.replaced = {}

\* a timer was replaced, a later one fired, and one more is armed
C2_Witness ==
  /\ hist.replaced # {}
  /\ hist.fired # {}
  /\ Pending

\* C3: When the armed timer fires the pipeline runs once and the debounce
\* machine is Idle from then on; no further run happens until another
\* content-change notification arrives.
C3_FireRunsOnce ==
  /\ hist.fires = hist.debRuns
  /\ hist.runsSinceNotify <= 1
  /\ (InDebouncedRun \/ hist.runsSinceNotify = 1) => Idle
  /\ (run.kind = "debounced" /\ run.done) =>
       /\ run.transformed => run.evaluated
       /\ run.writes <= 1

\* two notifications, each followed by its own run, and the machine is Idle
C3_Witness ==
  /\ hist.fires = 2
  /\ hist.debRuns = 2
  /\ hist.runsSinceNotify = 1
  /\ pc = "idle"
  /\ run.done
  /\ Idle

\* C4: There is never more than one transpile-evaluate-render cycle in
\* flight: no run starts while another is executing, and between the start
\* and the end of a run no content-change notification is handled.
C4_OneCycleInFlight ==
  /\ [](Len(stack) <= 1)
  /\ [][stack # <<>> =>
          /\ hist'.notifications = hist.notifications
          /\ text' = text
          /\ timers' = timers
          /\ Len(stack') <= 1]_vars

\* a debounced run is evaluating, after the start-up run has finished
C4_Witness ==
  /\ stack = <<"debounced">>
  /\ pc = "eval"
  /\ hist.initRuns = 1
  /\ hist.notifications >= 2

UseStrict == "\"use strict\""

\* s without a leading "use strict" string literal
StripLeadingUseStrict(s) ==
  IF Len(s) >= Len(UseStrict) /\ SubSeq(s, 1, Len(UseStrict)) = UseStrict
  THEN SubSeq(s, Len(UseStrict) + 1, Len(s))
  ELSE s

\* String(x), the string coercion of a thrown value
StringCoercion(x) ==
  IF x.t = "symbol" THEN "Symbol(" \o x.d \o ")" ELSE TemplateString(x).s

\* the latest run has ended and its evaluation returned the value v
Evaluated(v) == run.done /\ run.evalDone /\ run.value = <<v>>
\* the latest run has ended and its transpile or evaluate step threw
Failed == run.done /\ run.stage \in {"transform", "eval"}

\* C5: For every snippet that evaluates without error to a JSON-serializable
\* value v other than undefined, the text the run sets on the output equals
\* JSON.stringify(v, null, 2) with a leading "use strict" removed, and nothing
\* else (`1 + 1` yields exactly `2`).
C5_ResultText ==
  (/\ run.done
   /\ run.evalDone
   /\ run.value[1] # Undefined
   /\ JSONstringify(run.value[1]).k = "string")
    => outText = StripLeadingUseStrict(JSONstringify(run.value[1]).s)

C7_ErrorText ==
  (Failed /\ run.thrown[1].t = "Error") =>
    LET x == run.thrown[1]
    IN  /\ x.hasStack => outText = x.message \o "\n" \o x.stack
        /\ ~x.hasStack => outText = x.message \o "\n"

\* an Error without a stack was thrown by the evaluation and displayed
C7_Witness ==
  /\ Failed
  /\ run.stage = "eval"
  /\ run.thrown = <<Err("bare", FALSE, "")>>
  /\ outText = "bare\n"
  /\ run.outBefore # outText

\* C8: For every snippet that throws a value x that is not an Error, the
\* output text after the run equals the string coercion of x.
C8_NonErrorText ==
  (Failed /\ run.thrown[1].t # "Error") =>
    outText = StringCoercion(run.thrown[1])

\* C9: Every exception of the transpile or the evaluate step is caught once
\* inside handleCodeChange and turned into output text, whichever stage
\* failed; it never propagates out, a failed transpile prevents the
\* evaluation, and a failed run is not retried.
C9_CaughtOnce ==
  Failed =>
    /\ run.caught = 1
    /\ run.writes = 1
    /\ run.escaped = <<>>
    /\ run.stage = "transform" => ~run.evaluated
    /\ hist.runsSinceNotify <= 1
    /\ hist.initRuns = 1

\* the latest run has ended, and JSON.stringify threw on the value it computed
SerializationFailed ==
  /\ run.done
  /\ run.evalDone
  /\ JSONstringify(run.value[1]).k = "throw"

\* C10 as stated: the exception of the serialization is not caught; it
\* propagates out of handleCodeChange and the output is not set to an error
\* message.
C10_SerializationEscapes ==
  SerializationFailed =>
    /\ run.escaped # <<>>
    /\ run.caught = 0
    /\ run.writes = 0

\* C10: When a value was computed but cannot be JSON-stringified (it contains
\* a circular reference), the exception of the serialization is caught by the
\* try block of handleCodeChange like any other: nothing propagates out and
\* the output is set to the error's message and stack.
C10_SerializationCaught ==
  SerializationFailed =>
    /\ run.stage = "show"
    /\ run.caught = 1
    /\ run.escaped = <<>>
    /\ run.writes = 1
    /\ outText = CircularError.message \o "\n" \o CircularError.stack

\* a circular array was computed and the TypeError is on display
C10_Witness ==
  /\ SerializationFailed
  /\ run.value = <<Arr(<<Cyclic>>)>>
  /\ run.caught = 1
  /\ outText = CircularError.message \o "\n" \o CircularError.stack

\* the libraries that export name n, and the earliest of them in the order
\* R, RA, P
Exporters(n) == {l \in Libs : n \in Range(exports[l])}
Earliest(ls) == IF "R" \in ls THEN "R" ELSE IF "RA" \in ls THEN "RA" ELSE "P"

\* C11: For any three library export tables, the three name lists are pairwise
\* disjoint and each is free of duplicates, so the prelude declares no
\* identifier twice: the program of a run that reaches the evaluation is
\* accepted and its prelude's bindings exist.
C11_DisjointNameLists ==
  loaded =>
    /\ NoDuplicates(ramdaKeys)
    /\ NoDuplicates(ramdaAdjunctKeys)
    /\ NoDuplicates(purifyKeys)
    /\ Range(ramdaKeys) \cap Range(ramdaAdjunctKeys) = {}
    /\ Range(ramdaKeys) \cap Range(purifyKeys) = {}
    /\ Range(ramdaAdjunctKeys) \cap Range(purifyKeys) = {}
    /\ run.evaluated =>
         /\ scope # NoScope
         /\ \A i \in 1..Len(run.thrown) :
              run.thrown[i] \notin {RedeclaredError(n) : n \in Names}

\* all three libraries export one name, and a run has evaluated its program
C11_Witness ==
  /\ loaded
  /\ \E n \in Names : Exporters(n) = Libs
  /\ run.evaluated
  /\ run.done
  /\ scope # NoScope

\* C12: For any name that more than one of the three libraries exports, the
\* identifier the prelude binds refers to the export of the earliest library
\* in the order R, RA, P.
C12_EarliestLibraryWins ==
  scope # NoScope =>
    \A n \in Names :
      Cardinality(Exporters(n)) >= 2 =>
        /\ n \in DOMAIN scope
        /\ scope[n] = Export(Earliest(Exporters(n)), n)

\* the prelude has bound a name of all three libraries, and one that only RA
\* and P export
C12_Witness ==
  /\ scope # NoScope
  /\ \E n \in Names : Exporters(n) = Libs
  /\ \E n \in Names :
       /\ Exporters(n) = {"RA", "P"}
       /\ scope[n] = Export("RA", n)

\* the position of a name in a list
Pos(xs, n) == CHOOSE i \in 1..Len(xs) : xs[i] = n

\* ys is xs without the names in removed, in the order of xs
IsFiltered(ys, xs, removed) ==
  /\ NoDuplicates(ys)
  /\ Range(ys) = Range(xs) \ removed
  /\ \A i, j \in 1..Len(ys) : i < j => Pos(xs, ys[i]) < Pos(xs, ys[j])

\* C13: The name lists equal the reference computation: ramdaKeys is the
\* names of R, ramdaAdjunctKeys the names of RA without those of ramdaKeys,
\* purifyKeys the names of P without those of the two other lists; each list
\* keeps the order of its library's export table, and every name any library
\* exports is in exactly one list.
C13_NameListMerger ==
  loaded =>
    /\ ramdaKeys = exports["R"]
    /\ IsFiltered(ramdaAdjunctKeys, exports["RA"], Range(ramdaKeys))
    /\ IsFiltered(purifyKeys, exports["P"],
                  Range(ramdaKeys) \cup Range(ramdaAdjunctKeys))
    /\ \A n \in UNION {Range(exports[l]) : l \in Libs} :
         LET all == ramdaKeys \o ramdaAdjunctKeys \o purifyKeys
         IN  Cardinality({i \in 1..Len(all) : all[i] = n}) = 1

\* RA exports three names, the middle one is R's, and two are left in order
C13_Witness ==
  /\ loaded
  /\ Len(exports["RA"]) = 3
  /\ exports["RA"][2] \in Range(ramdaKeys)
  /\ ramdaAdjunctKeys = <<exports["RA"][1], exports["RA"][3]>>
  /\ Range(purifyKeys) # Range(exports["P"])

\* C14: The globals R, RA and P are installed idempotently and non-writable:
\* once a run has reached the install step they are the three library objects
\* and stay so, every later run passes the install step, and an assignment to
\* one of them by evaluated code changes nothing.
C14_GlobalsInstalledOnce ==
  /\ [](/\ run.stage # "define"
        /\ \A l \in Libs :
             window[l].defined =>
               /\ window[l].value = Namespace(l)
               /\ ~window[l].writable
        /\ (run.evaluated \/ pc \in {"eval", "show"}) =>
             \A l \in Libs : window[l].defined)
  /\ [][\A l \in Libs : window[l].defined => window'[l] = window[l]]_vars

\* the run before this one evaluated R = 5, and this run has passed the
\* install step and ended
C14_Witness ==
  /\ run.outBefore = "\n5"
  /\ run.kind = "debounced"
  /\ run.evaluated
  /\ run.done
  /\ window["R"] = Installed("R")

\* the latest share action wrote an address to the clipboard
Copied == hist.shared.called /\ hist.shared.wrote

\* the clipboard holds a copy of the page's address whose code parameter is t
HoldsCopyWithCode(t) ==
  /\ clipboard # NoClip
  /\ ParseURL(clipboard[1]).base = ParseURL(hist.shared.href).base
  /\ initialCode(clipboard[1]) = <<t>>

\* C15 as stated: for every editor state, the share action writes the editor's
\* text into the code parameter of a copy of the page's address and writes
\* that address to the clipboard.
C15_ShareWrites ==
  hist.shared.called => HoldsCopyWithCode(hist.shared.text)

\* C15: For every editor whose text is not empty, the share action writes the
\* text into the code parameter of a copy of the page's address, which itself
\* stays as it is, and writes that copy to the clipboard; with an empty editor
\* it writes nothing and the clipboard keeps what it held.
C15_ShareWritesNonEmpty ==
  hist.shared.called =>
    /\ location = hist.shared.href
    /\ hist.shared.text # "" =>
         /\ hist.shared.wrote
         /\ HoldsCopyWithCode(hist.shared.text)
    /\ hist.shared.text = "" =>
         /\ ~hist.shared.wrote
         /\ clipboard = hist.shared.before

\* a text full of reserved characters was shared from a page that has other
\* parameters, over an address copied before
C15_Witness ==
  /\ Copied
  /\ hist.shared.text = "'a&b=c#d%e'"
  /\ Len(ParseURL(hist.shared.href).searchParams) >= 3
  /\ hist.shared.before # NoClip
  /\ hist.shared.before # clipboard
  /\ initialCode(clipboard[1]) = <<"'a&b=c#d%e'">>

\* C16: URL round trip. For editor text t, the address the share action
\* copies, opened as a fresh page, gives the editor the initial content t.
C16_RoundTrip ==
  Copied => EditorValue(initialCode(clipboard[1])) = hist.shared.text

\* the round trip of a text with &, =, #, % and quotes, shared from a page
\* that was itself opened with a code parameter
C16_Witness ==
  /\ Copied
  /\ hist.shared.text = "'a&b=c#d%e'"
  /\ hist.shared.href = Origin \o "?code=const+%3D+%3B"
  /\ clipboard = <<Origin \o "?code=%27a%26b%3Dc%23d%25e%27">>
  /\ EditorValue(initialCode(clipboard[1])) = hist.shared.text

\* the parameters other than code
Others(pairs) == SelectSeq(pairs, LAMBDA pair : pair[1] # "code")

\* the query of an address as it is written, without its code parameters
RawQuery(href) ==
  LET h    == IndexOf(href, "#")
      main == IF h = 0 THEN href ELSE SubSeq(href, 1, h - 1)
      q    == IndexOf(main, "?")
  IN  IF q = 0 THEN "" ELSE SubSeq(main, q + 1, Len(main))

RawOthers(href) ==
  SelectSeq(Split(RawQuery(href), "&"),
            LAMBDA part : part # "" /\ ParseQuery(part)[1][1] # "code")

\* C17 as stated: every other query parameter appears unchanged in the copied
\* address, as it is written in the page's address.
C17_OthersAppearUnchanged ==
  Copied => RawOthers(clipboard[1]) = RawOthers(hist.shared.href)

\* C17: The share action touches no parameter but code: the copied address
\* has the page's origin, path and fragment and every other parameter with its
\* name and value, in the page's order (re-serialized: %20 is written +, a
\* bare name gets an = sign), and exactly one code parameter, in the place of
\* the first when the page had some; page load reads only code, the first.
C17_OnlyCodeTouched ==
  /\ Copied =>
       LET copy == ParseURL(clipboard[1])
           page == ParseURL(hist.shared.href)
           to   == copy.searchParams
           from == page.searchParams
       IN  /\ copy.base = page.base
           /\ copy.hash = page.hash
           /\ Others(to) = Others(from)
           /\ Cardinality({i \in 1..Len(to) : to[i][1] = "code"}) = 1
           /\ \A i \in 1..Len(from) :
                (/\ from[i][1] = "code"
                 /\ \A j \in 1..(i - 1) : from[j][1] # "code")
                  => to[i] = <<"code", hist.shared.text>>
  /\ hist.notifications = 0 =>
       LET codes == SelectSeq(ParseURL(location).searchParams,
                              LAMBDA pair : pair[1] = "code")
       IN  text = IF codes = <<>> THEN "" ELSE codes[1][2]

\* shared from a page with another parameter, two code parameters, a bare
\* name and a fragment
C17_Witness ==
  /\ Copied
  /\ hist.shared.href = Origin \o "?theme=dark&code=&flag&code=R.add(1)#top"
  /\ clipboard = <<Origin \o "?theme=dark&code=1+%2B+1&flag=#top">>

\* C18: A run never modifies the editor: from the call of handleCodeChange
\* to its end, whether it ends in a display or in an error, the editor's text
\* and handle stay what they were and the content-change listener stays
\* registered; the run works on the text it found.
C18_EditorUntouched ==
  /\ [][(stack # <<>> \/ stack' # <<>>) =>
          /\ text' = text
          /\ editor' = editor
          /\ listeners' = listeners]_vars
  /\ []((stack # <<>> /\ pc # "transform") => run.src = text)
  /\ [](run.kind # "none" => editor # NULL /\ listeners = 1)

\* a debounced run has ended in a displayed error, and the editor still
\* holds the text the run read
C18_Witness ==
  /\ run.done
  /\ run.kind = "debounced"
  /\ run.caught = 1
  /\ run.writes = 1
  /\ text = run.src
  /\ editor # NULL
  /\ listeners = 1

\* what a run on source src displays, as a function of the source alone:
\* its console.log calls and its completion
ExpectedOutput(src) ==
  LET p == SnippetOf(src)
  IN  IF p.done.k = "throw" THEN catch(p.done.e)
      ELSE LET v == show(p.done.v, p.logs)
           IN  IF v.k = "set" THEN v ELSE catch(v.e)

\* C19: No error state persists: every run overwrites the output completely,
\* so the output after a run is determined by that run alone (its source and
\* the console.log calls it made), whatever earlier runs displayed.
C19_OutputOfThisRunAlone ==
  run.done =>
    /\ run.writes = 1
    /\ ExpectedOutput(run.src).k = "set"
    /\ outText = ExpectedOutput(run.src).s

\* C20: The editor handle and the output handle each change from null to a
\* widget once, on mount, and are never recreated or reset; one
\* content-change listener, with one debounce closure, is ever registered.
C20_HandlesCreatedOnce ==
  /\ [](/\ hist.editors = (IF editor = NULL THEN 0 ELSE 1)
        /\ hist.outputs = (IF output = NULL THEN 0 ELSE 1)
        /\ hist.closures = hist.editors
        /\ listeners = hist.closures)
  /\ [][/\ editor # NULL => editor' = editor
        /\ output # NULL => output' = output
        /\ listeners # 0 => listeners' = listeners]_vars

\* both handles are set and, two debounced runs later, nothing was created
\* a second time
C20_Witness ==
  /\ Mounted
  /\ hist.editors = 1
  /\ hist.outputs = 1
  /\ hist.closures = 1
  /\ listeners = 1
  /\ hist.debRuns >= 2
  /\ run.done

\* C21: The "use strict" stripping removes only a leading occurrence: when
\* the stringified result holds "use strict" anywhere else (an element of an
\* array, say), the displayed text still holds it.
C21_StripsLeadingOnly ==
  (/\ run.done
   /\ run.evalDone
   /\ run.writes = 1
   /\ JSONstringify(run.value[1]).k = "string"
   /\ IndexOf(JSONstringify(run.value[1]).s, UseStrict) > 1)
    => IndexOf(outText, UseStrict) > 0

\* C22: Error formatting is total: whatever kind of value was thrown, the
\* catch branch of handleCodeChange completes without throwing and sets the
\* output text.
C22_FormattingTotal ==
  (run.done /\ run.caught = 1) =>
    /\ run.escaped = <<>>
    /\ run.writes = 1

\* C23: Quiet period. While fewer than Delay milliseconds have passed since
\* the most recent content-change notification, no pipeline run has started
\* since that notification and none is in progress.
C23_QuietPeriod ==
  (hist.sinceNotify >= 0 /\ hist.sinceNotify < Delay) =>
    /\ hist.runsSinceNotify = 0
    /\ stack = <<>>
    /\ pc = "idle"

\* the second notification of a burst was followed by a quiet Delay, and the
\* debounced run it armed is in progress
C23_Witness ==
  /\ hist.burstLen >= 2
  /\ hist.sinceNotify = Delay
  /\ hist.runsSinceNotify = 1
  /\ InDebouncedRun

\* C25: The initial evaluation runs once, at once and without the debounce
\* delay, as soon as both the editor handle and the output handle are
\* non-null: it has not run while a handle is null, it has started in the very
\* step that makes both non-null, no timer and no notification is involved in
\* it, and it never runs a second time.
C25_InitialRunOnce ==
  /\ hist.initRuns = (IF Mounted THEN 1 ELSE 0)
  /\ initialized <=> Mounted
  /\ "initial" \in Range(stack) =>
       /\ hist.fires = 0
       /\ hist.notifications = 0
       /\ timers = {}

\* both handles exist, the start-up run and two debounced runs after it have
\* ended, and the start-up run was not repeated
C25_Witness ==
  /\ Mounted
  /\ hist.initRuns = 1
  /\ hist.debRuns >= 2
  /\ run.done
  /\ pc = "idle"

\* the latest run has ended and its evaluation returned a value that is not
\* undefined and for which JSON.stringify returns no string
Unserializable ==
  /\ run.done
  /\ run.evalDone
  /\ run.value[1].t \in {"function", "symbol"}

\* C29: When the evaluated value is not undefined but JSON.stringify returns
\* no string for it (a function or a symbol), the TypeError of calling
\* .replace on undefined is caught inside handleCodeChange: its message and
\* stack are written to the output and nothing propagates to the caller.
C29_NoTextCaught ==
  Unserializable =>
    /\ run.stage = "show"
    /\ run.caught = 1
    /\ run.thrown = <<ReplaceOfUndefinedError>>
    /\ run.escaped = <<>>
    /\ run.writes = 1
    /\ outText = ReplaceOfUndefinedError.message \o "\n"
                   \o ReplaceOfUndefinedError.stack

\* a debounced run evaluated R.add(1) to a function and has ended
C29_Witness ==
  /\ Unserializable
  /\ run.kind = "debounced"
  /\ run.src = "R.add(1)"
  /\ run.value = <<Fn>>
  /\ pc = "idle"
  /\ IndexOf(outText, "Cannot read properties of undefined") = 1

\* a run evaluated Symbol('s') to a symbol and has ended
C29_WitnessSymbol ==
  /\ Unserializable
  /\ run.value = <<Sym("s")>>
  /\ pc = "idle"

C26_NullHandleNoOp ==
  [][hist'.nullCalls # hist.nullCalls =>
       /\ editor = NULL \/ output = NULL
       /\ pc' = "idle"
       /\ stack' = <<>>
       /\ run' = run
       /\ window' = window
       /\ logData' = logData
       /\ outText' = outText
       /\ UNCHANGED <<editor, output, listeners, text, effectVars, timerVars,
                      js, result, e, envVars, scope>>]_vars

\* handleCodeChange was called with the editor created and the output handle
\* still null, while the captured-log list held an entry: the entry is still
\* there and no run has ever started
C26_Witness ==
  /\ hist.nullCalls >= 1
  /\ editor # NULL
  /\ output = NULL
  /\ logData # <<>>
  /\ run = NoRun
  /\ \A l \in Libs : ~window[l].defined

\* C27: Log capture is per run. The captured-log list is empty after the
\* reset that follows transpilation and until evaluation; when the run
\* displays, the list it reads holds the console.log calls of this run's
\* evaluation, in call order, and nothing logged by earlier runs or between
\* runs; the displayed text is made of those calls alone.
C27_LogsPerRun ==
  /\ pc \in {"define", "eval"} => logData = <<>>
  /\ pc = "show" => logData = run.logs
  /\ (run.done /\ run.evalDone) => run.shown = run.logs
  /\ (run.done /\ run.evalDone /\ run.caught = 0) =>
       outText = show(run.value[1], run.logs).s

\* a run started with two entries in the list, one of them logged outside any
\* run, and displayed its own two calls alone
C27_Witness ==
  /\ run.done
  /\ run.stale = 2
  /\ run.logs = << <<Str("a")>>, <<Str("b")>> >>
  /\ run.shown = run.logs
  /\ outText = "a\nb\n2"
  /\ IndexOf(outText, "late") = 0

\* the debounce machine is Idle and the latest run has ended, read the text
\* the editor holds now and wrote the output
Settled ==
  /\ Idle
  /\ pc = "idle"
  /\ run.done
  /\ run.src = text
  /\ run.writes = 1

\* C24: No content change is lost: once a content change was notified, and
\* notifications stop, the armed timer fires, the pipeline runs with the
\* final editor text, the output is written from that text and the debounce
\* machine ends Idle, for good.
C24_NoChangeLost == [](hist.notifications > 0 => <>[]Settled)

====
